---------------------------- MODULE Spec2Model ----------------------------
(***************************************************************************)
(* A model of autometer.py: one run of main(), which reads two electricity *)
(* tariff values from the Saures metering API, submits them to the         *)
(* Mosenergosbyt portal and reports the outcome through Telegram.          *)
(*                                                                         *)
(* main() is cut into one action per external call; the code between two   *)
(* calls belongs to the action of the call that precedes it.  Python's     *)
(* exceptions are modelled by what the interpreter does with them:         *)
(* sys.exit raises SystemExit, which is a BaseException and is therefore   *)
(* not matched by "except Exception"; a local variable that was never      *)
(* assigned raises UnboundLocalError (a NameError) when it is read.        *)
(***************************************************************************)
EXTENDS Integers, Sequences, FiniteSets, TLC

(***************************************************************************)
(* Bounds of the model.                                                    *)
(***************************************************************************)
MaxIdLen == 3       \* longest TELEGRAM_CHAT_ID string
MaxVals == 3        \* most values one meter carries
MaxItems == 3       \* most sensors and meters, together, of one snapshot

(***************************************************************************)
(* Strings are sequences of characters where the code takes them apart.    *)
(***************************************************************************)
Chars == {"1", ","}

SeqsUpTo(S, n) == UNION {[1..k -> S] : k \in 0..n}

\* os.environ.get(var) gives None (set = FALSE) or a string
None == [set |-> FALSE, val |-> <<>>]
Str(s) == [set |-> TRUE, val |-> s]

required_env_vars ==
    <<"LOGIN", "LOG_FILE", "SAURES_PASS", "SAURES_API_URL", "METER_ID",
      "MOSENERGO_LK_URL", "MOSENERGO_PASS", "TELEGRAM_BOT_TOKEN",
      "TELEGRAM_CHAT_ID">>

EnvNames == {required_env_vars[i] : i \in 1..Len(required_env_vars)}

\* the values a variable of the environment can have at process start
EnvValues(var) ==
    IF var = "TELEGRAM_CHAT_ID"
    THEN {None} \cup {Str(s) : s \in SeqsUpTo(Chars, MaxIdLen)}
    ELSE {None, Str(<<>>), Str(<<"1">>)}

\* Python truthiness of os.environ.get(var): None and '' are falsy
Truthy(v) == v.set /\ v.val # <<>>

\* str.split(','): the pieces between the separators, empty pieces included
RECURSIVE SplitAcc(_, _, _)
SplitAcc(s, cur, acc) ==
    IF s = <<>> THEN Append(acc, cur)
    ELSE IF Head(s) = ","
         THEN SplitAcc(Tail(s), <<>>, Append(acc, cur))
         ELSE SplitAcc(Tail(s), Append(cur, Head(s)), acc)

Split(s) == SplitAcc(s, <<>>, <<>>)

(***************************************************************************)
(* The metering snapshot and the extraction of the electricity values.     *)
(* A raw value is a count of tenths (1234 is 123.4).                       *)
(***************************************************************************)
Electricity == "Elektrichestvo"     \* the type name the code looks for
RawVals == {6, 25}

\* an electricity meter with any values, or a water meter
Meters == {[type |-> Electricity, vals |-> v] : v \in SeqsUpTo(RawVals, MaxVals)}
            \cup {[type |-> "Voda", vals |-> <<5>>]}
\* The snapshots data['sensors'] = [{'meters': [...]}, ...] are listed in
\* written-out order: a mark opens a sensor and the meters that follow it
\* are that sensor's.  Nested(items) is the list of lists the code walks.
SensorStart == [type |-> "sensor", vals |-> <<>>]

RECURSIVE NestedAcc(_, _)
NestedAcc(items, sensors) ==
    IF items = <<>> THEN sensors
    ELSE IF Head(items) = SensorStart
         THEN NestedAcc(Tail(items), Append(sensors, <<>>))
         ELSE NestedAcc(Tail(items),
                        [sensors EXCEPT ![Len(sensors)] = Append(@, Head(items))])

Nested(items) == NestedAcc(items, <<>>)

\* no sensor at all, or a first sensor and whatever follows it
Snapshots ==
    {<<>>} \cup {Nested(<<SensorStart>> \o rest) :
                    rest \in SeqsUpTo(Meters \cup {SensorStart}, MaxItems - 1)}

\* Python 3 round(): to the nearest integer, a tie goes to the even one
PyRound(t) ==
    LET q == t \div 10
        r == t % 10
    IN  IF r < 5 THEN q
        ELSE IF r > 5 THEN q + 1
        ELSE IF q % 2 = 0 THEN q ELSE q + 1

\* a variant that cuts the fraction off instead of rounding
RoundAll_Truncate(vals) == [i \in 1..Len(vals) |-> vals[i] \div 10]

RoundAll(vals) == [i \in 1..Len(vals) |-> PyRound(vals[i])]

\* the flattened sensor -> meter scan of the two nested for loops
RECURSIVE FlattenMeters(_)
FlattenMeters(sensors) ==
    IF sensors = <<>> THEN <<>>
    ELSE Head(sensors) \o FlattenMeters(Tail(sensors))

\* a variant that forgets the test of the type name
FirstElectricity_AnyType(meters) ==
    IF meters = <<>> THEN <<>> ELSE RoundAll(Head(meters).vals)

RECURSIVE FirstElectricity(_)
FirstElectricity(meters) ==
    IF meters = <<>> THEN <<>>
    ELSE IF Head(meters).type = Electricity
         THEN RoundAll(Head(meters).vals)
         ELSE FirstElectricity(Tail(meters))

get_electricity_vals(data) == FirstElectricity(FlattenMeters(data))

\* what get_electricity_vals can return for the snapshots of the model
ExtractedReadings == {get_electricity_vals(data) : data \in Snapshots}


(***************************************************************************)
(* The billing portal's submission results and the notification text.      *)
(* A text is a sequence of tokens: a markup tag is one token, and so is    *)
(* each fixed piece of the messages main() builds.                         *)
(***************************************************************************)
FontOpen == "<font color='#ff6347'>"
FontClose == "</font>"
BOpen == "<b>"
BClose == "</b>"
MdBold == "**"

ResultTexts == { <<"text">>, <<FontOpen, BOpen, "text", BClose, FontClose>> }

\* the 'data' list of a submission response; the code reads data[0] only
DataLists == { <<>>, <<[nm_result |-> None]>> }
                \cup { <<[nm_result |-> Str(t)]>> : t \in ResultTexts }

\* a received response: {success, data?}; a success response may lack the
\* data list, a failure response carries none
SubmitResponses ==
    {[success |-> TRUE, data |-> d] : d \in {None} \cup {Str(l) : l \in DataLists}}
        \cup {[success |-> FALSE, data |-> None]}

\* send_mosenergo_data returns None for a request that failed
AbsentResult == [success |-> FALSE, data |-> None, absent |-> TRUE]
Received(r) == [success |-> r.success, data |-> r.data, absent |-> FALSE]

\* str.replace on a tokenised text: every occurrence of the tag is replaced
RECURSIVE Replace(_, _, _)
Replace(text, tag, by) ==
    IF text = <<>> THEN <<>>
    ELSE (IF Head(text) = tag THEN by ELSE <<Head(text)>>)
            \o Replace(Tail(text), tag, by)

SuccessHeader == "*Mosenergosbyt Operation Success*"
FailureHeader == "*Mosenergosbyt Operation Failure*"
UnexpectedHeader == "*Mosenergosbyt Script Unexpected Failure*"
NoResultMessage == <<"No result message available">>
NotEnoughValues == "Not enough electricity values received."
CheckLogs == "Operation failed. Check logs for details."
IndexErrorText == "list index out of range"
KeyErrorData == "'data'"

ProviderIds == {"p1", "p2"}

(***************************************************************************)
(* The outcomes of the external calls, by the branch of the code they      *)
(* take.                                                                   *)
(***************************************************************************)
\* Saures login and meters: "ok" returns; a non-"ok" status, a transport
\* error and a KeyError/ValueError on the body all end in sys.exit(1)
SauresOutcomes == {"ok", "bad_status", "transport", "malformed"}

\* Mosenergosbyt login and LSList: as above, and "empty_data" is a success
\* response whose data list is empty, so data[0] raises IndexError
MosenergoOutcomes == {"ok", "not_success", "transport", "malformed", "empty_data"}

TelegramOutcomes == {"ok", "api_failure", "transport"}

VARIABLES
    environ,            \* os.environ at process start
    pc,                 \* the next step of main()
    electricity_values, \* main's local, a sequence of integers
    provider_id,        \* main's local
    calc_response,      \* main's local
    save_response,      \* main's local
    success,            \* main's local
    error_message,      \* main's local
    message,            \* main's local (meaningful when bound)
    bound,              \* which of main's locals electricity_values, session
                        \* and message have been assigned
    pending,            \* the exception in flight, "none" if there is none
    idx,                \* position of the for loop over the recipients
    sessions_created,   \* requests.Session objects made
    sessions_closed,    \* close() calls on the session
    calls,              \* every external request issued, in order
    posted,             \* the payloads of the two submissions, in order
    sent,               \* the send_telegram_message calls and what each returned
    exit_status,        \* the process exit status (meaningful when pc = "exited")
    snapshot,           \* the argument of a get_electricity_vals call taken alone
    extracted           \* what that call returned

vars == <<environ, pc, electricity_values, provider_id, calc_response,
          save_response, success, error_message, message, bound, pending, idx,
          sessions_created, sessions_closed, calls, posted, sent, exit_status,
          snapshot, extracted>>

Init ==
    /\ \E chat \in EnvValues("TELEGRAM_CHAT_ID"),
          rest \in [EnvNames \ {"TELEGRAM_CHAT_ID"} -> EnvValues("LOGIN")] :
            environ = [var \in EnvNames |->
                          IF var = "TELEGRAM_CHAT_ID" THEN chat ELSE rest[var]]
    /\ pc = "setup_environment"
    /\ electricity_values = <<>>
    /\ provider_id = ""
    /\ calc_response = AbsentResult
    /\ save_response = AbsentResult
    /\ success = FALSE
    /\ error_message = ""
    /\ message = <<>>
    /\ bound = {}
    /\ pending = "none"
    /\ idx = 1
    /\ sessions_created = 0
    /\ sessions_closed = 0
    /\ calls = <<>>
    /\ posted = <<>>
    /\ sent = <<>>
    /\ exit_status = 0
    /\ snapshot = <<>>
    /\ extracted = <<>>

\* one entry of the log of external requests: ok tells whether the function
\* that issued it returned a result (True, for send_telegram_message)
Call(op, ok) == [op |-> op, ok |-> ok]

(***************************************************************************)
(* setup_environment: exit 1 when a required variable is missing or empty. *)
(***************************************************************************)
\* a variant that checks only "is None", so that '' counts as present
missing_vars_NoneOnly ==
    {var \in EnvNames : ~environ[var].set}

missing_vars ==
    {var \in EnvNames : ~Truthy(environ[var])}

setup_environment ==
    /\ pc = "setup_environment"
    /\ UNCHANGED <<snapshot, extracted>>
    /\ IF missing_vars # {}
       THEN /\ pc' = "exited"
            /\ exit_status' = 1
            /\ pending' = "SystemExit"
       ELSE /\ pc' = "authenticate_saures"
            /\ UNCHANGED <<exit_status, pending>>
    /\ UNCHANGED <<environ, electricity_values, provider_id, calc_response,
                   save_response, success, error_message, message, bound, idx,
                   sessions_created, sessions_closed, calls, posted, sent>>

(***************************************************************************)
(* How an exception raised inside the try block of main() is handled.      *)
(***************************************************************************)
\* "except Exception as e": build the failure message, go on to finally
\* (newly: the locals assigned in the step before the exception was raised)
ExceptException(text, newly) ==
    /\ success' = FALSE
    /\ error_message' = text
    /\ message' = <<UnexpectedHeader, "Error: ", text>>
    /\ bound' = bound \cup newly \cup {"message"}
    /\ pc' = "finally"
    /\ UNCHANGED pending

\* sys.exit(1): SystemExit is not an Exception, the except clause is
\* skipped and the finally block runs with the exception in flight
RaiseSystemExit ==
    /\ pending' = "SystemExit"
    /\ pc' = "finally"
    /\ UNCHANGED <<success, error_message, message, bound>>

(***************************************************************************)
(* authenticate_saures, called first inside the try block.                 *)
(***************************************************************************)
\* a variant that logs the failure and forgets the sys.exit(1)
authenticate_saures_NoExit ==
    /\ pc = "authenticate_saures"
    /\ UNCHANGED <<snapshot, extracted>>
    /\ \E outcome \in SauresOutcomes :
          calls' = Append(calls, Call("saures_login", outcome = "ok"))
    /\ pc' = "fetch_saures_meter_data"
    /\ UNCHANGED <<environ, electricity_values, provider_id, calc_response,
                   save_response, success, error_message, message, bound,
                   pending, idx, sessions_created, sessions_closed, posted,
                   sent, exit_status>>

\* a variant that tries the login a second time when the first attempt
\* failed
authenticate_saures_Retry ==
    /\ pc = "authenticate_saures"
    /\ UNCHANGED <<snapshot, extracted>>
    /\ \E first \in SauresOutcomes, second \in SauresOutcomes :
          IF first = "ok"
          THEN /\ calls' = Append(calls, Call("saures_login", TRUE))
               /\ pc' = "fetch_saures_meter_data"
               /\ UNCHANGED <<success, error_message, message, bound, pending>>
          ELSE /\ calls' = calls \o <<Call("saures_login", FALSE),
                                      Call("saures_login", second = "ok")>>
               /\ IF second = "ok"
                  THEN /\ pc' = "fetch_saures_meter_data"
                       /\ UNCHANGED <<success, error_message, message, bound,
                                      pending>>
                  ELSE RaiseSystemExit
    /\ UNCHANGED <<environ, electricity_values, provider_id, calc_response,
                   save_response, idx, sessions_created, sessions_closed,
                   posted, sent, exit_status>>

authenticate_saures ==
    /\ pc = "authenticate_saures"
    /\ UNCHANGED <<snapshot, extracted>>
    /\ \E outcome \in SauresOutcomes :
          /\ calls' = Append(calls, Call("saures_login", outcome = "ok"))
          /\ IF outcome = "ok"
             THEN /\ pc' = "fetch_saures_meter_data"
                  /\ UNCHANGED <<success, error_message, message, bound,
                                 pending>>
             ELSE RaiseSystemExit
    /\ UNCHANGED <<environ, electricity_values, provider_id, calc_response,
                   save_response, idx, sessions_created, sessions_closed,
                   posted, sent, exit_status>>

(***************************************************************************)
(* fetch_saures_meter_data, then the extraction and the validation of the  *)
(* reading (no external call lies between them).                           *)
(***************************************************************************)
\* a variant with the comparison off by one
NotEnough_OffByOne(vals) == Len(vals) < 1

NotEnough(vals) == Len(vals) < 2

fetch_saures_meter_data ==
    /\ pc = "fetch_saures_meter_data"
    /\ UNCHANGED <<snapshot, extracted>>
    /\ \E outcome \in SauresOutcomes :
          /\ calls' = Append(calls, Call("saures_meters", outcome = "ok"))
          /\ IF outcome = "ok"
             THEN /\ electricity_values' \in ExtractedReadings
                  /\ IF NotEnough(electricity_values')
                     THEN ExceptException(NotEnoughValues, {"electricity_values"})
                     ELSE /\ pc' = "authenticate_mosenergo"
                          /\ bound' = bound \cup {"electricity_values"}
                          /\ UNCHANGED <<success, error_message, message,
                                         pending>>
             ELSE /\ RaiseSystemExit
                  /\ UNCHANGED electricity_values
    /\ UNCHANGED <<environ, provider_id, calc_response, save_response, idx,
                   sessions_created, sessions_closed, posted, sent,
                   exit_status>>

(***************************************************************************)
(* authenticate_mosenergo: the Session object is made before the request;  *)
(* main's local "session" is bound only when the call returns.             *)
(***************************************************************************)
authenticate_mosenergo ==
    /\ pc = "authenticate_mosenergo"
    /\ UNCHANGED <<snapshot, extracted>>
    /\ sessions_created' = sessions_created + 1
    /\ \E outcome \in MosenergoOutcomes :
          /\ calls' = Append(calls, Call("mosenergo_login", outcome = "ok"))
          /\ CASE outcome = "ok" ->
                    /\ bound' = bound \cup {"session"}
                    /\ pc' = "fetch_mosenergo_provider"
                    /\ UNCHANGED <<success, error_message, message, pending>>
               [] outcome = "empty_data" -> ExceptException(IndexErrorText, {})
               [] OTHER -> RaiseSystemExit
    /\ UNCHANGED <<environ, electricity_values, provider_id, calc_response,
                   save_response, idx, sessions_closed, posted, sent,
                   exit_status>>

fetch_mosenergo_provider ==
    /\ pc = "fetch_mosenergo_provider"
    /\ UNCHANGED <<snapshot, extracted>>
    /\ \E outcome \in MosenergoOutcomes :
          /\ calls' = Append(calls, Call("LSList", outcome = "ok"))
          /\ CASE outcome = "ok" ->
                    /\ provider_id' \in ProviderIds
                    /\ pc' = "send_calc"
                    /\ UNCHANGED <<success, error_message, message, bound,
                                   pending>>
               [] outcome = "empty_data" ->
                    /\ ExceptException(IndexErrorText, {})
                    /\ UNCHANGED provider_id
               [] OTHER ->
                    /\ RaiseSystemExit
                    /\ UNCHANGED provider_id
    /\ UNCHANGED <<environ, electricity_values, calc_response, save_response,
                   idx, sessions_created, sessions_closed, posted, sent,
                   exit_status>>

(***************************************************************************)
(* send_mosenergo_data: the payload it posts and what it returns.          *)
(***************************************************************************)
\* a variant whose SaveIndications branch fills the two tariff fields the
\* other way round
Payload_Swapped(query_type) ==
    IF query_type = "CalcCharge"
    THEN [nn_phone |-> "+7 (499) 550-9-550", plugin |-> "bytProxy",
          pr_flat_meter |-> 0, proxyquery |-> "CalcCharge",
          vl_provider |-> provider_id,
          vl_t1 |-> electricity_values[1], vl_t2 |-> electricity_values[2]]
    ELSE [plugin |-> "propagateMesInd", pr_flat_meter |-> 0,
          vl_provider |-> provider_id,
          vl_t1 |-> electricity_values[2], vl_t2 |-> electricity_values[1]]

Payload(query_type) ==
    IF query_type = "CalcCharge"
    THEN [nn_phone |-> "+7 (499) 550-9-550", plugin |-> "bytProxy",
          pr_flat_meter |-> 0, proxyquery |-> "CalcCharge",
          vl_provider |-> provider_id,
          vl_t1 |-> electricity_values[1], vl_t2 |-> electricity_values[2]]
    ELSE [plugin |-> "propagateMesInd", pr_flat_meter |-> 0,
          vl_provider |-> provider_id,
          vl_t1 |-> electricity_values[1], vl_t2 |-> electricity_values[2]]

\* the possible return values: None after a RequestException, the parsed
\* body otherwise (whatever its success flag)
send_mosenergo_data_returns ==
    {AbsentResult} \cup {Received(r) : r \in SubmitResponses}

\* a variant that treats a failed request like the other functions do,
\* with sys.exit(1)
SendCalcCharge_Fatal ==
    /\ pc = "send_calc"
    /\ UNCHANGED <<snapshot, extracted>>
    /\ posted' = Append(posted, [query |-> "CalcCharge",
                                 data |-> Payload("CalcCharge")])
    /\ calc_response' \in send_mosenergo_data_returns
    /\ calls' = Append(calls, Call("CalcCharge", ~calc_response'.absent))
    /\ IF calc_response'.absent
       THEN RaiseSystemExit
       ELSE /\ pc' = "send_save"
            /\ UNCHANGED <<success, error_message, message, bound, pending>>
    /\ UNCHANGED <<environ, electricity_values, provider_id, save_response,
                   idx, sessions_created, sessions_closed, sent, exit_status>>

SendCalcCharge ==
    /\ pc = "send_calc"
    /\ UNCHANGED <<snapshot, extracted>>
    /\ posted' = Append(posted, [query |-> "CalcCharge",
                                 data |-> Payload("CalcCharge")])
    /\ calc_response' \in send_mosenergo_data_returns
    /\ calls' = Append(calls, Call("CalcCharge", ~calc_response'.absent))
    /\ pc' = "send_save"
    /\ UNCHANGED <<environ, electricity_values, provider_id, save_response,
                   success, error_message, message, bound, pending, idx,
                   sessions_created, sessions_closed, sent, exit_status>>

(***************************************************************************)
(* The classification of the two results and the message built from them.  *)
(***************************************************************************)
\* "if calc_response and save_response and calc_response.get('success')
\*  and save_response.get('success')"
BothSuccessful(calc, save) ==
    /\ ~calc.absent
    /\ ~save.absent
    /\ calc.success
    /\ save.success

\* response['data'][0].get('nm_result', 'No result message available')
NmResult(response) ==
    LET first == response.data.val[1]
    IN  IF first.nm_result.set THEN first.nm_result.val ELSE NoResultMessage

CleanCalcResult(text) ==
    Replace(Replace(Replace(Replace(text, FontOpen, <<>>), FontClose, <<>>),
                    BOpen, <<MdBold>>), BClose, <<MdBold>>)

Classify(calc, save) ==
    IF BothSuccessful(calc, save)
    THEN CASE ~calc.data.set -> ExceptException(KeyErrorData, {})
           [] calc.data.set /\ calc.data.val = <<>> ->
                  ExceptException(IndexErrorText, {})
           [] calc.data.set /\ calc.data.val # <<>> /\ ~save.data.set ->
                  ExceptException(KeyErrorData, {})
           [] calc.data.set /\ calc.data.val # <<>> /\ save.data.set
                /\ save.data.val = <<>> ->
                  ExceptException(IndexErrorText, {})
           [] OTHER ->
                  /\ success' = TRUE
                  /\ message' = <<SuccessHeader>> \o CleanCalcResult(NmResult(calc))
                                    \o <<"\n">> \o NmResult(save)
                  /\ bound' = bound \cup {"message"}
                  /\ pc' = "finally"
                  /\ UNCHANGED <<error_message, pending>>
    ELSE /\ success' = FALSE
         /\ error_message' = CheckLogs
         /\ message' = <<FailureHeader, "Error: ", CheckLogs>>
         /\ bound' = bound \cup {"message"}
         /\ pc' = "finally"
         /\ UNCHANGED pending

SendSaveIndications ==
    /\ pc = "send_save"
    /\ UNCHANGED <<snapshot, extracted>>
    /\ posted' = Append(posted, [query |-> "SaveIndications",
                                 data |-> Payload("SaveIndications")])
    /\ save_response' \in send_mosenergo_data_returns
    /\ calls' = Append(calls, Call("SaveIndications", ~save_response'.absent))
    /\ Classify(calc_response, save_response')
    /\ UNCHANGED <<environ, electricity_values, provider_id, calc_response,
                   idx, sessions_created, sessions_closed, sent, exit_status>>

(***************************************************************************)
(* The finally block: one send_telegram_message call per piece of          *)
(* TELEGRAM_CHAT_ID, then the teardown.                                    *)
(***************************************************************************)
recipients == Split(environ["TELEGRAM_CHAT_ID"].val)

\* send_telegram_message returns True for an "ok" answer and False for an
\* answer that is not ok and for a RequestException
send_telegram_message(outcome) == outcome = "ok"

\* a variant of send_telegram_message without the try/except: a transport
\* error leaves main() as an unhandled RequestException
Notify_Raises ==
    /\ pc = "finally"
    /\ UNCHANGED <<snapshot, extracted>>
    /\ IF "message" \notin bound
       THEN /\ pending' = "UnboundLocalError"
            /\ pc' = "exited"
            /\ exit_status' = 1
            /\ UNCHANGED <<idx, calls, sent>>
       ELSE \E outcome \in TelegramOutcomes :
            /\ sent' = Append(sent, [chat_id |-> recipients[idx],
                                     text |-> message,
                                     returned |-> send_telegram_message(outcome)])
            /\ calls' = Append(calls, Call("sendMessage", sent'[idx].returned))
            /\ IF outcome = "transport"
               THEN /\ pending' = "RequestException"
                    /\ pc' = "exited"
                    /\ exit_status' = 1
                    /\ UNCHANGED idx
               ELSE /\ idx' = idx + 1
                    /\ pc' = IF idx = Len(recipients) THEN "teardown"
                             ELSE "finally"
                    /\ UNCHANGED <<pending, exit_status>>
    /\ UNCHANGED <<environ, electricity_values, provider_id, calc_response,
                   save_response, success, error_message, message, bound,
                   sessions_created, sessions_closed, posted>>

\* a variant that tries a recipient a second time when the first attempt
\* returned False
Notify_Resend ==
    /\ pc = "finally"
    /\ UNCHANGED <<snapshot, extracted>>
    /\ IF "message" \notin bound
       THEN /\ pending' = "UnboundLocalError"
            /\ pc' = "exited"
            /\ exit_status' = 1
            /\ UNCHANGED <<idx, calls, sent>>
       ELSE /\ \E first \in TelegramOutcomes, second \in TelegramOutcomes :
                  LET attempt(outcome) ==
                         [chat_id |-> recipients[idx], text |-> message,
                          returned |-> send_telegram_message(outcome)]
                  IN  IF send_telegram_message(first)
                      THEN /\ sent' = Append(sent, attempt(first))
                           /\ calls' = Append(calls, Call("sendMessage", TRUE))
                      ELSE /\ sent' = sent \o <<attempt(first), attempt(second)>>
                           /\ calls' = calls \o
                                 <<Call("sendMessage", FALSE),
                                   Call("sendMessage",
                                        send_telegram_message(second))>>
            /\ idx' = idx + 1
            /\ pc' = IF idx = Len(recipients) THEN "teardown" ELSE "finally"
            /\ UNCHANGED <<pending, exit_status>>
    /\ UNCHANGED <<environ, electricity_values, provider_id, calc_response,
                   save_response, success, error_message, message, bound,
                   sessions_created, sessions_closed, posted>>

\* a variant of the finally block that closes the session before the
\* first notification instead of after the last one
Notify_CloseFirst ==
    /\ pc = "finally"
    /\ UNCHANGED <<snapshot, extracted>>
    /\ IF "message" \notin bound
       THEN /\ pending' = "UnboundLocalError"
            /\ pc' = "exited"
            /\ exit_status' = 1
            /\ UNCHANGED <<idx, calls, sent, sessions_closed>>
       ELSE /\ sessions_closed' =
                  IF idx = 1 /\ "session" \in bound THEN sessions_closed + 1
                  ELSE sessions_closed
            /\ \E outcome \in TelegramOutcomes :
                  sent' = Append(sent, [chat_id |-> recipients[idx],
                                        text |-> message,
                                        returned |-> send_telegram_message(outcome)])
            /\ calls' = Append(calls, Call("sendMessage", sent'[idx].returned))
            /\ idx' = idx + 1
            /\ pc' = IF idx = Len(recipients) THEN "exited" ELSE "finally"
            /\ exit_status' = IF idx = Len(recipients) /\ pending # "none"
                              THEN 1 ELSE exit_status
            /\ UNCHANGED pending
    /\ UNCHANGED <<environ, electricity_values, provider_id, calc_response,
                   save_response, success, error_message, message, bound,
                   sessions_created, posted>>

Notify ==
    /\ pc = "finally"
    /\ UNCHANGED <<snapshot, extracted>>
    /\ IF "message" \notin bound
       THEN \* reading the unassigned local raises UnboundLocalError, which
            \* leaves main(): the interpreter prints it and exits with 1
            /\ pending' = "UnboundLocalError"
            /\ pc' = "exited"
            /\ exit_status' = 1
            /\ UNCHANGED <<idx, calls, sent>>
       ELSE /\ \E outcome \in TelegramOutcomes :
                  sent' = Append(sent, [chat_id |-> recipients[idx],
                                        text |-> message,
                                        returned |-> send_telegram_message(outcome)])
            /\ calls' = Append(calls, Call("sendMessage", sent'[idx].returned))
            /\ idx' = idx + 1
            /\ pc' = IF idx = Len(recipients) THEN "teardown" ELSE "finally"
            /\ UNCHANGED <<pending, exit_status>>
    /\ UNCHANGED <<environ, electricity_values, provider_id, calc_response,
                   save_response, success, error_message, message, bound,
                   sessions_created, sessions_closed, posted>>

\* "try: session.close() except NameError: pass", then the end of main():
\* an exception still in flight is re-raised and the process exits with 1
Teardown ==
    /\ pc = "teardown"
    /\ UNCHANGED <<snapshot, extracted>>
    /\ sessions_closed' = IF "session" \in bound THEN sessions_closed + 1
                          ELSE sessions_closed
    /\ pc' = "exited"
    /\ exit_status' = IF pending = "none" THEN 0 ELSE 1
    /\ UNCHANGED <<environ, electricity_values, provider_id, calc_response,
                   save_response, success, error_message, message, bound,
                   pending, idx, sessions_created, calls, posted, sent>>

Next ==
    \/ setup_environment
    \/ authenticate_saures
    \/ fetch_saures_meter_data
    \/ authenticate_mosenergo
    \/ fetch_mosenergo_provider
    \/ SendCalcCharge
    \/ SendSaveIndications
    \/ Notify
    \/ Teardown

Spec == Init /\ [][Next]_vars

(***************************************************************************)
(* get_electricity_vals taken alone: called once on any snapshot.          *)
(***************************************************************************)
InitExtract ==
    /\ environ = [var \in EnvNames |-> Str(<<"1">>)]
    /\ pc = "get_electricity_vals"
    /\ electricity_values = <<>>
    /\ provider_id = ""
    /\ calc_response = AbsentResult
    /\ save_response = AbsentResult
    /\ success = FALSE
    /\ error_message = ""
    /\ message = <<>>
    /\ bound = {}
    /\ pending = "none"
    /\ idx = 1
    /\ sessions_created = 0
    /\ sessions_closed = 0
    /\ calls = <<>>
    /\ posted = <<>>
    /\ sent = <<>>
    /\ exit_status = 0
    /\ snapshot \in Snapshots
    /\ extracted = <<>>

CallGetElectricityVals ==
    /\ pc = "get_electricity_vals"
    /\ extracted' = get_electricity_vals(snapshot)
    /\ pc' = "returned"
    /\ UNCHANGED <<environ, electricity_values, provider_id, calc_response,
                   save_response, success, error_message, message, bound,
                   pending, idx, sessions_created, sessions_closed, calls,
                   posted, sent, exit_status, snapshot>>

NextExtract == CallGetElectricityVals

SpecExtract == InitExtract /\ [][NextExtract]_vars

(***************************************************************************)
(* Vocabulary of the properties.                                           *)
(***************************************************************************)
\* all nine configuration values are present and not empty
ConfigComplete ==
    \A var \in EnvNames : environ[var].set /\ environ[var].val # <<>>

\* main() has left its try block
InFinallyOrLater == pc \in {"finally", "teardown", "exited"}

Issued(op) == \E i \in DOMAIN calls : calls[i].op = op

BillingOps == {"mosenergo_login", "LSList", "CalcCharge", "SaveIndications"}

\* send_telegram_message was called once for every piece of the recipient
\* list, in the order of the list
EveryRecipientNotified ==
    /\ Len(sent) >= Len(recipients)
    /\ \A i \in DOMAIN recipients : sent[i].chat_id = recipients[i]

\* the try block was left before the second submission was made
LeftByFatalCondition ==
    ConfigComplete /\ InFinallyOrLater /\ ~Issued("SaveIndications")

(***************************************************************************)
(* C1: on every run with a complete configuration, when the process has    *)
(* ended send_telegram_message has been called for each configured         *)
(* recipient, whatever the outcome, a fatal condition before the           *)
(* submissions included.                                                   *)
(***************************************************************************)
C1_NotifiedOnEveryOutcome ==
    (pc = "exited" /\ ConfigComplete) => EveryRecipientNotified

(***************************************************************************)
(* C2: every fatal condition raised in the try block of main is caught     *)
(* and turned into a failure outcome whose message carries "Unexpected     *)
(* Failure"; none leaves the try block unhandled.                          *)
(***************************************************************************)
C2_FatalConditionCaught ==
    LeftByFatalCondition =>
        /\ pending = "none"
        /\ ~success
        /\ "message" \in bound
        /\ message[1] = UnexpectedHeader

(***************************************************************************)
(* C3: after both submissions were attempted, the run is classified        *)
(* successful (success flag set, "Operation Success" message) exactly      *)
(* when both results are present and both success indicators are true.     *)
(***************************************************************************)
C3_SuccessIffBothSucceeded ==
    (InFinallyOrLater /\ Issued("SaveIndications")) =>
        ((success /\ "message" \in bound /\ message[1] = SuccessHeader)
            <=> BothSuccessful(calc_response, save_response))

(***************************************************************************)
(* C4: when the process has ended, a billing session that was created has  *)
(* been closed exactly once, and none was closed when none was created.    *)
(***************************************************************************)
C4_SessionClosedExactlyOnce ==
    (pc = "exited" /\ ConfigComplete) => sessions_closed = sessions_created

(***************************************************************************)
(* C5: when the extraction yields fewer than two values, the run leaves    *)
(* the try block with no billing call made, and the message sent to the    *)
(* recipients reports "Not enough electricity values received."            *)
(***************************************************************************)
TooFewValuesExtracted ==
    "electricity_values" \in bound /\ Len(electricity_values) < 2

C5_TooFewValuesFailBeforeBilling ==
    TooFewValuesExtracted =>
        /\ InFinallyOrLater
        /\ \A op \in BillingOps : ~Issued(op)
        /\ sessions_created = 0
        /\ posted = <<>>
        /\ ~success
        /\ "message" \in bound
        /\ message = <<UnexpectedHeader, "Error: ", NotEnoughValues>>
        /\ \A j \in DOMAIN sent : sent[j].text = message
        /\ pc \in {"teardown", "exited"} => EveryRecipientNotified

C5_Witness ==
    /\ pc = "exited"
    /\ "electricity_values" \in bound
    /\ Len(electricity_values) = 1
    /\ Len(sent) = 2
    /\ sent[2].text[3] = NotEnoughValues

(***************************************************************************)
(* C6: a transport error of the ChargeCalculation submission is not fatal: *)
(* the result is absent, SaveIndications is still attempted, the outcome   *)
(* is the failure with the generic "check logs" message, and the           *)
(* recipients are notified.                                                *)
(***************************************************************************)
CalcChargeFailed ==
    \E i \in DOMAIN calls : calls[i] = Call("CalcCharge", FALSE)

SucceededBefore(op, i) ==
    \E j \in 1..(i - 1) : calls[j] = Call(op, TRUE)

C7_CallsInProgramOrder ==
    \A i \in DOMAIN calls :
        /\ calls[i].op = "mosenergo_login" =>
              /\ SucceededBefore("saures_login", i)
              /\ SucceededBefore("saures_meters", i)
              /\ \E j, k \in 1..(i - 1) :
                    /\ j < k
                    /\ calls[j].op = "saures_login"
                    /\ calls[k].op = "saures_meters"
        /\ calls[i].op \in {"CalcCharge", "SaveIndications"} =>
              /\ SucceededBefore("mosenergo_login", i)
              /\ SucceededBefore("LSList", i)
        /\ calls[i].op = "SaveIndications" =>
              \E j \in 1..(i - 1) : calls[j].op = "CalcCharge"

C7_Witness ==
    /\ pc = "exited"
    /\ Len(calls) >= 6
    /\ calls[5].op = "CalcCharge"
    /\ calls[6].op = "SaveIndications"

(***************************************************************************)
(* C8: the exit status is 0 on every run with a complete configuration,    *)
(* whatever the outcome (success, soft failure, fatal condition such as    *)
(* an authentication failure); non-zero only for a missing configuration.  *)
(***************************************************************************)
C8_ExitStatusZero ==
    pc = "exited" => (exit_status = 0 <=> ConfigComplete)

(***************************************************************************)
(* C9: send_telegram_message never raises: a failed delivery is returned   *)
(* as False, delivery to the remaining recipients is still attempted, the  *)
(* teardown is still done, and the outcome of the run is not changed.      *)
(***************************************************************************)
C9_DeliveryFailureNotFatal ==
    /\ [](sent # <<>> =>
            /\ pending = "none"
            /\ pc \in {"teardown", "exited"} => EveryRecipientNotified
            /\ pc = "exited" =>
                  /\ exit_status = 0
                  /\ "session" \in bound => sessions_closed = 1)
    /\ [][sent' # sent =>
            /\ success' = success
            /\ message' = message
            /\ error_message' = error_message
            /\ pc' \in {"finally", "teardown"}]_vars

C9_Witness ==
    /\ pc = "exited"
    /\ Len(sent) = 3
    /\ ~sent[1].returned
    /\ sent[3].returned
    /\ sessions_closed = 1
    /\ success

(***************************************************************************)
(* C10: when one of the nine configuration values is absent or empty, the  *)
(* process exits with a non-zero status and makes no metering, billing or  *)
(* messaging call.                                                         *)
(***************************************************************************)
C10_MissingConfigExitsWithoutCalls ==
    ~ConfigComplete =>
        /\ pc \in {"setup_environment", "exited"}
        /\ pc = "exited" => exit_status # 0
        /\ calls = <<>>
        /\ sent = <<>>
        /\ posted = <<>>
        /\ sessions_created = 0

C10_Witness ==
    /\ pc = "exited"
    /\ exit_status = 1
    /\ environ["LOGIN"] = Str(<<>>)
    /\ \A var \in EnvNames \ {"LOGIN"} : Truthy(environ[var])

(***************************************************************************)
(* Vocabulary of the properties of get_electricity_vals.                   *)
(***************************************************************************)
\* meter j of sensor i is the first electricity meter of the snapshot
FirstElectricityAt(i, j) ==
    /\ snapshot[i][j].type = Electricity
    /\ \A k \in DOMAIN snapshot : \A l \in DOMAIN snapshot[k] :
          (k < i \/ (k = i /\ l < j)) => snapshot[k][l].type # Electricity

NoElectricityMeter ==
    \A i \in DOMAIN snapshot : \A j \in DOMAIN snapshot[i] :
        snapshot[i][j].type # Electricity

\* the integer r is a nearest integer of the raw value t (t counts tenths)
Nearest(r, t) == (10 * r - t) \in -5..5

(***************************************************************************)
(* C11 as stated: when the first electricity meter has two or more values, *)
(* get_electricity_vals returns exactly the first two, each rounded to     *)
(* the nearest integer, in source order (the result has length 2).         *)
(***************************************************************************)
C11_ReturnsExactlyFirstTwo ==
    pc = "returned" =>
        \A i \in DOMAIN snapshot : \A j \in DOMAIN snapshot[i] :
            (FirstElectricityAt(i, j) /\ Len(snapshot[i][j].vals) >= 2) =>
                /\ Len(extracted) = 2
                /\ \A n \in 1..2 : Nearest(extracted[n], snapshot[i][j].vals[n])

(***************************************************************************)
(* C11 as amended: when the first electricity meter has two or more        *)
(* values, get_electricity_vals returns all of its values, each rounded    *)
(* to the nearest integer, in source order: the result is as long as the   *)
(* meter's value list, and its first two entries are the first two values  *)
(* rounded.                                                                *)
(***************************************************************************)
C11_ReturnsAllValuesRounded ==
    pc = "returned" =>
        \A i \in DOMAIN snapshot : \A j \in DOMAIN snapshot[i] :
            (FirstElectricityAt(i, j) /\ Len(snapshot[i][j].vals) >= 2) =>
                /\ Len(extracted) = Len(snapshot[i][j].vals)
                /\ \A n \in DOMAIN extracted :
                      Nearest(extracted[n], snapshot[i][j].vals[n])

C11_Witness ==
    /\ pc = "returned"
    /\ Len(snapshot) = 1
    /\ Len(snapshot[1]) = 2
    /\ snapshot[1][1].type # Electricity
    /\ FirstElectricityAt(1, 2)
    /\ Len(snapshot[1][2].vals) = 3
    /\ Len(extracted) = 3
    /\ extracted[1] # extracted[2]

(***************************************************************************)
(* C12: for a snapshot with no electricity meter (no sensors, or sensors   *)
(* with no meters, included) get_electricity_vals returns the empty list.  *)
(***************************************************************************)
C12_NoElectricityMeterGivesEmpty ==
    (pc = "returned" /\ NoElectricityMeter) => extracted = <<>>

C12_Witness ==
    /\ pc = "returned"
    /\ Len(snapshot) = 2
    /\ snapshot[1] = <<>>
    /\ Len(snapshot[2]) = 1
    /\ NoElectricityMeter
    /\ extracted = <<>>

(***************************************************************************)
(* C13: on a successful run, for each of the two result texts              *)
(* (ChargeCalculation and SaveIndications) that carries the colored-font   *)
(* wrapper and the bold tags, the notification text holds none of the      *)
(* wrapper tags and none of the <b>, </b> tags, and holds the same span    *)
(* between two Markdown bold marks instead.                                *)
(***************************************************************************)
SourceTags == {FontOpen, FontClose, BOpen, BClose}

Tagged(text) ==
    \E n \in DOMAIN text : text[n] \in SourceTags

NoSourceTags(text) ==
    \A n \in DOMAIN text : text[n] \notin SourceTags

\* the words of a result text, its tags left out
RECURSIVE Span(_)
Span(text) ==
    IF text = <<>> THEN <<>>
    ELSE (IF Head(text) \in SourceTags THEN <<>> ELSE <<Head(text)>>)
            \o Span(Tail(text))

\* text holds the span between two Markdown bold marks
HoldsInBold(text, span) ==
    \E n \in DOMAIN text :
       /\ n + Len(span) + 1 <= Len(text)
       /\ SubSeq(text, n, n + Len(span) + 1) = <<MdBold>> \o span \o <<MdBold>>

\* the run was classified successful and its message was built
SuccessMessageBuilt ==
    InFinallyOrLater /\ success /\ "message" \in bound

C13_MarkupNormalizedInBothResults ==
    SuccessMessageBuilt =>
       \A response \in {calc_response, save_response} :
          Tagged(NmResult(response)) =>
             /\ NoSourceTags(message)
             /\ HoldsInBold(message, Span(NmResult(response)))
             /\ \A i \in DOMAIN sent : sent[i].text = message

(***************************************************************************)
(* C14: in a run send_telegram_message is called at most once for each     *)
(* entry of the recipient list, on every path, the exception paths         *)
(* included: the calls made so far go to the first entries of the list,    *)
(* one call each, in the order of the list.                                *)
(***************************************************************************)
CountOf(op) == Cardinality({i \in DOMAIN calls : calls[i].op = op})

C14_AtMostOncePerRecipient ==
    /\ Len(sent) <= Len(recipients)
    /\ \A i \in DOMAIN sent : sent[i].chat_id = recipients[i]
    /\ CountOf("sendMessage") = Len(sent)

\* an exception path with two recipients: the first delivery failed and was
\* not repeated
C14_Witness ==
    /\ pc = "exited"
    /\ Len(recipients) = 2
    /\ Len(sent) = 2
    /\ sent[1].text[1] = UnexpectedHeader
    /\ ~sent[1].returned
    /\ CountOf("sendMessage") = 2

(***************************************************************************)
(* C15: main() moves forward without retries: in a run each of the six     *)
(* external operations (metering login, metering fetch, billing login,     *)
(* provider fetch, ChargeCalculation, SaveIndications) is requested at     *)
(* most once, also when that operation or a later one has failed.          *)
(***************************************************************************)
ExternalOps ==
    {"saures_login", "saures_meters", "mosenergo_login", "LSList",
     "CalcCharge", "SaveIndications"}

C15_EachOperationAtMostOnce ==
    \A op \in ExternalOps : CountOf(op) <= 1

\* a finished run whose ChargeCalculation request failed: it was not
\* repeated, and neither was any operation before or after it
C15_Witness ==
    /\ pc = "exited"
    /\ \E i \in DOMAIN calls : calls[i] = Call("CalcCharge", FALSE)
    /\ \A op \in ExternalOps : CountOf(op) = 1

(***************************************************************************)
(* C16: the two submissions of a run carry the same provider id and the    *)
(* same reading: in each posted payload vl_t1 is the first extracted value *)
(* and vl_t2 the second, and the first submission, failed or not, leaves   *)
(* the reading and the provider id the second one uses as they were.       *)
(***************************************************************************)
C16_BothSubmissionsCarrySameReading ==
    /\ Len(posted) <= 2
    /\ \A k \in DOMAIN posted :
          /\ posted[k].query = <<"CalcCharge", "SaveIndications">>[k]
          /\ posted[k].data.vl_provider = provider_id
          /\ posted[k].data.vl_t1 = electricity_values[1]
          /\ posted[k].data.vl_t2 = electricity_values[2]
    /\ Len(posted) = 2 =>
          /\ posted[1].data.vl_provider = posted[2].data.vl_provider
          /\ posted[1].data.vl_t1 = posted[2].data.vl_t1
          /\ posted[1].data.vl_t2 = posted[2].data.vl_t2

\* both submissions were made, the first one failed, and the two tariff
\* values differ
C16_Witness ==
    /\ Len(posted) = 2
    /\ calc_response.absent
    /\ ~save_response.absent
    /\ electricity_values[1] # electricity_values[2]
    /\ posted[2].data.vl_t1 = electricity_values[1]

(***************************************************************************)
(* C17: in every run the notifications to all the recipients are attempted *)
(* before session.close() is called, and no metering or billing request is *)
(* issued after the first notification attempt or after the close: the     *)
(* session is never used once it is closed.                                *)
(***************************************************************************)
\* the requests a step adds to the log
NewCalls == {calls'[k] : k \in (DOMAIN calls') \ (DOMAIN calls)}

C17_NotifyThenCloseThenNothing ==
    /\ [](sessions_closed >= 1 => EveryRecipientNotified)
    /\ [](\A i \in DOMAIN calls : \A j \in DOMAIN calls :
             (i < j /\ calls[i].op = "sendMessage")
                => calls[j].op \notin ExternalOps)
    /\ [][ /\ sessions_closed' > sessions_closed => EveryRecipientNotified
           /\ (sent # <<>> \/ sessions_closed >= 1) =>
                 \A c \in NewCalls : c.op \notin ExternalOps
           /\ sessions_closed >= 1 => calls' = calls ]_vars

\* a finished run that made both submissions, notified two recipients and
\* closed its session: the log ends with the two notifications
C17_Witness ==
    /\ pc = "exited"
    /\ sessions_closed = 1
    /\ Issued("SaveIndications")
    /\ Len(recipients) = 2
    /\ Len(sent) = 2
    /\ calls[Len(calls)].op = "sendMessage"
    /\ calls[Len(calls) - 1].op = "sendMessage"
    /\ calls[Len(calls) - 2].op = "SaveIndications"

=============================================================================
